---------------------------- MODULE Spec2Model ----------------------------
(***************************************************************************)
(* A model of i2c_encoder/encoder.py: the Encoder class of the DuPPa I2C   *)
(* Encoder v2.1 driver.  The class is a table of register descriptors      *)
(* (adafruit_register's RWBit, RWBits, ROBits and UnaryStruct) bound to    *)
(* one I2CDevice.  Every attribute access on an Encoder runs the           *)
(* descriptor's __get__ or __set__, which locks the bus (the `with         *)
(* obj.i2c_device` block), transfers bytes and unlocks.                    *)
(*                                                                         *)
(* encoder.py only instantiates the descriptors; their bodies are those of *)
(* the libraries it imports on lines 50-51 (adafruit_bus_device,           *)
(* adafruit_register).  The operators named after the library methods      *)
(* below follow those bodies step by step.                                 *)
(*                                                                         *)
(* Integers of TLC are 32 bits wide, so the 1024-bit value of the eeprom   *)
(* field is kept as its base-256 digits (the data bytes in bus order,      *)
(* least significant first), and the float struct fields, whose values     *)
(* have no counterpart here, are declared but not exercised.               *)
(***************************************************************************)
EXTENDS Integers, Sequences, FiniteSets, TLC

(***************************************************************************)
(* Register addresses (encoder.py, lines 69-100).                          *)
(***************************************************************************)
_REG_GCONF == 0
_REG_GCONF2 == 48
_REG_GP1CONF == 1
_REG_GP2CONF == 2
_REG_GP3CONF == 3
_REG_INTCONF == 3
_REG_ESTATUS == 5
_REG_I2STATUS == 6
_REG_FSTATUS == 7
_REG_CVAL == 8
_REG_CMAX == 12
_REG_CMIN == 16
_REG_ISTEP == 20
_REG_RLED == 24
_REG_GLED == 25
_REG_BLED == 26
_REG_GP1 == 27
_REG_GP2 == 28
_REG_GP3 == 29
_REG_ANTBOUNC == 30
_REG_DPPERIOD == 31
_REG_FADERGB == 32
_REG_FADEGP == 33
_REG_GAMRLED == 39
_REG_GAMGLED == 40
_REG_GAMBLED == 41
_REG_GAMMAGP1 == 42
_REG_GAMMAGP2 == 43
_REG_GAMMAGP3 == 44
_REG_IDCODE == 112
_REG_VERSION == 113
_REG_EEPROM == 128

(***************************************************************************)
(* Bounds of the model.  The device starts with register a holding         *)
(* (seed + 29 * a) % 256, for the seeds 0, 165, 74, 239, ... below.        *)
(***************************************************************************)
MaxSeed == 3

Byte == 0..255

Seeds == {(k * 165) % 256 : k \in 0..MaxSeed}

Callers == {1, 2}

(***************************************************************************)
(* Bit arithmetic on naturals.                                             *)
(***************************************************************************)
RECURSIVE BitAnd(_, _)
BitAnd(a, b) ==
    IF a = 0 \/ b = 0 THEN 0
    ELSE (a % 2) * (b % 2) + 2 * BitAnd(a \div 2, b \div 2)

RECURSIVE BitOr(_, _)
BitOr(a, b) ==
    IF a = 0 THEN b
    ELSE IF b = 0 THEN a
    ELSE (IF a % 2 = 1 \/ b % 2 = 1 THEN 1 ELSE 0) + 2 * BitOr(a \div 2, b \div 2)

\* x & ~m for naturals x and m (Python's ~m is -m - 1, all ones above m).
BitAndNot(x, m) == x - BitAnd(x, m)

ShiftLeft(x, n) == x * 2^n

ShiftRight(x, n) == x \div 2^n

(***************************************************************************)
(* The descriptors' constructors.  Each keeps its arguments and what       *)
(* __init__ derives from them.  The data part of the descriptor's buffer   *)
(* (buffer[1:], register_width bytes) is the variable `buffer`; buffer[0]  *)
(* is the register address, `reg`.                                         *)
(***************************************************************************)
\* i2c_bit.RWBit(register_address, bit), register_width = 1, lsb_first.
RWBit(register_address, bit) ==
    [kind |-> "RWBit", reg |-> register_address, num_bits |-> 1,
     lowest_bit |-> bit % 8, bit_mask |-> ShiftLeft(1, bit % 8),
     byte |-> bit \div 8 + 1, width |-> 1, format |-> ""]

\* i2c_bits.RWBits(num_bits, register_address, lowest_bit), register_width = 1.
RWBits(num_bits, register_address, lowest_bit) ==
    [kind |-> "RWBits", reg |-> register_address, num_bits |-> num_bits,
     lowest_bit |-> lowest_bit,
     bit_mask |-> ShiftLeft(ShiftLeft(1, num_bits) - 1, lowest_bit),
     byte |-> 1, width |-> 1, format |-> ""]

\* i2c_bits.ROBits(num_bits, register_address, lowest_bit, register_width).
\* A mask wider than TLC's integers is all ones over the whole register
\* (num_bits = 8 * register_width, lowest_bit = 0) and is kept as -1.
ROBits(num_bits, register_address, lowest_bit, register_width) ==
    [kind |-> "ROBits", reg |-> register_address, num_bits |-> num_bits,
     lowest_bit |-> lowest_bit,
     bit_mask |-> IF num_bits <= 24
                  THEN ShiftLeft(ShiftLeft(1, num_bits) - 1, lowest_bit)
                  ELSE 0 - 1,
     byte |-> 1, width |-> register_width, format |-> ""]

\* i2c_struct.UnaryStruct(register_address, struct_format); both formats
\* used, ">f" and ">l", have struct.calcsize 4.
UnaryStruct(register_address, struct_format) ==
    [kind |-> "UnaryStruct", reg |-> register_address, num_bits |-> 32,
     lowest_bit |-> 0, bit_mask |-> 0, byte |-> 1, width |-> 4,
     format |-> struct_format]

(***************************************************************************)
(* The class attributes of Encoder (encoder.py, lines 115-229).            *)
(***************************************************************************)
gconf_dtype == RWBit(_REG_GCONF, 0)
gconf_wrape == RWBit(_REG_GCONF, 1)
gconf_dire == RWBit(_REG_GCONF, 2)
gconf_ipud == RWBit(_REG_GCONF, 3)
gconf_rmod == RWBit(_REG_GCONF, 4)
gconf_etype == RWBit(_REG_GCONF, 5)
gconf_mbank == RWBit(_REG_GCONF, 6)
gconf_rst == RWBit(_REG_GCONF, 7)

gconf2_cksrc == RWBit(_REG_GCONF, 0)
gconf2_relmod == RWBit(_REG_GCONF, 1)

gp1conf == RWBits(8, _REG_GP1CONF, 0)
gp1conf_mode == RWBits(2, _REG_GP1CONF, 0)
gp1conf_pul == RWBit(_REG_GP1CONF, 2)
gp1conf_int == RWBits(2, _REG_GP1CONF, 3)

gp2conf == RWBits(8, _REG_GP2CONF, 0)
gp2conf_mode == RWBits(2, _REG_GP2CONF, 0)
gp2conf_pul == RWBit(_REG_GP2CONF, 2)
gp2conf_int == RWBits(2, _REG_GP2CONF, 3)

gp3conf == RWBits(8, _REG_GP3CONF, 0)
gp3conf_mode == RWBits(2, _REG_GP3CONF, 0)
gp3conf_pul == RWBit(_REG_GP3CONF, 2)
gp3conf_int == RWBits(2, _REG_GP3CONF, 3)

intconf_ipushr == RWBit(_REG_INTCONF, 0)
intconf_ipushp == RWBit(_REG_INTCONF, 1)
intconf_ipushd == RWBit(_REG_INTCONF, 2)
intconf_irinc == RWBit(_REG_INTCONF, 3)
intconf_irdec == RWBit(_REG_INTCONF, 4)
intconf_irmax == RWBit(_REG_INTCONF, 5)
intconf_irmin == RWBit(_REG_INTCONF, 6)
intconf_int2 == RWBit(_REG_INTCONF, 7)

estatus == ROBits(8, _REG_ESTATUS, 0, 1)
i2status == ROBits(8, _REG_I2STATUS, 0, 1)
fstatus == ROBits(8, _REG_FSTATUS, 0, 1)

cval_float == UnaryStruct(_REG_CVAL, ">f")
cval_long == UnaryStruct(_REG_CVAL, ">l")
cmax_float == UnaryStruct(_REG_CMAX, ">f")
cmax_long == UnaryStruct(_REG_CMAX, ">l")
cmin_float == UnaryStruct(_REG_CMIN, ">f")
cmin_long == UnaryStruct(_REG_CMIN, ">l")
istep_float == UnaryStruct(_REG_ISTEP, ">f")
istep_long == UnaryStruct(_REG_ISTEP, ">l")

rled == RWBits(8, _REG_RLED, 0)
gled == RWBits(8, _REG_GLED, 0)
bled == RWBits(8, _REG_BLED, 0)

gp1 == RWBits(8, _REG_GP1, 0)
gp2 == RWBits(8, _REG_GP2, 0)
gp3 == RWBits(8, _REG_GP3, 0)

antbounc == RWBits(8, _REG_ANTBOUNC, 0)
dpperiod == RWBits(8, _REG_DPPERIOD, 0)
fadergb == RWBits(8, _REG_FADERGB, 0)
fadegp == RWBits(8, _REG_FADEGP, 0)

gamrled == RWBits(3, _REG_GAMRLED, 0)
gamgled == RWBits(3, _REG_GAMGLED, 0)
gambled == RWBits(3, _REG_GAMBLED, 0)

gammagp1 == RWBits(3, _REG_GAMMAGP1, 0)
gammagp2 == RWBits(3, _REG_GAMMAGP2, 0)
gammagp3 == RWBits(3, _REG_GAMMAGP3, 0)

idcode == ROBits(8, _REG_IDCODE, 0, 1)
version == ROBits(8, _REG_VERSION, 0, 1)
eeprom == ROBits(1024, _REG_EEPROM, 0, 128)

\* The namespace of the class: attribute name -> descriptor.
Encoder ==
    [gconf_dtype |-> gconf_dtype, gconf_wrape |-> gconf_wrape,
     gconf_dire |-> gconf_dire, gconf_ipud |-> gconf_ipud,
     gconf_rmod |-> gconf_rmod, gconf_etype |-> gconf_etype,
     gconf_mbank |-> gconf_mbank, gconf_rst |-> gconf_rst,
     gconf2_cksrc |-> gconf2_cksrc, gconf2_relmod |-> gconf2_relmod,
     gp1conf |-> gp1conf, gp1conf_mode |-> gp1conf_mode,
     gp1conf_pul |-> gp1conf_pul, gp1conf_int |-> gp1conf_int,
     gp2conf |-> gp2conf, gp2conf_mode |-> gp2conf_mode,
     gp2conf_pul |-> gp2conf_pul, gp2conf_int |-> gp2conf_int,
     gp3conf |-> gp3conf, gp3conf_mode |-> gp3conf_mode,
     gp3conf_pul |-> gp3conf_pul, gp3conf_int |-> gp3conf_int,
     intconf_ipushr |-> intconf_ipushr, intconf_ipushp |-> intconf_ipushp,
     intconf_ipushd |-> intconf_ipushd, intconf_irinc |-> intconf_irinc,
     intconf_irdec |-> intconf_irdec, intconf_irmax |-> intconf_irmax,
     intconf_irmin |-> intconf_irmin, intconf_int2 |-> intconf_int2,
     estatus |-> estatus, i2status |-> i2status, fstatus |-> fstatus,
     cval_float |-> cval_float, cval_long |-> cval_long,
     cmax_float |-> cmax_float, cmax_long |-> cmax_long,
     cmin_float |-> cmin_float, cmin_long |-> cmin_long,
     istep_float |-> istep_float, istep_long |-> istep_long,
     rled |-> rled, gled |-> gled, bled |-> bled,
     gp1 |-> gp1, gp2 |-> gp2, gp3 |-> gp3,
     antbounc |-> antbounc, dpperiod |-> dpperiod,
     fadergb |-> fadergb, fadegp |-> fadegp,
     gamrled |-> gamrled, gamgled |-> gamgled, gambled |-> gambled,
     gammagp1 |-> gammagp1, gammagp2 |-> gammagp2, gammagp3 |-> gammagp3,
     idcode |-> idcode, version |-> version, eeprom |-> eeprom]

FieldNames == DOMAIN Encoder


(***************************************************************************)
(* What the callers ask for.  A name outside the class exercises Python's  *)
(* default attribute protocol on the instance.                             *)
(***************************************************************************)
UnknownNames == {"no_such_field"}

Names == FieldNames \cup UnknownNames

FloatNames == {n \in FieldNames : Encoder[n].format = ">f"}

LongNames == {n \in FieldNames : Encoder[n].format = ">l"}

\* -2^31, written so that no literal exceeds TLC's integers.
MinLong == 0 - 2147483647 - 1

LongValues == {MinLong, 0 - 2, 0, 16909060, 2147483647}

\* The values a set is tried with: in range, and the first one out of range.
\* Python's False and True are the integers 0 and 1.
SetValues(n) ==
    IF n \notin FieldNames THEN {1}
    ELSE CASE Encoder[n].kind = "RWBit" -> {0, 1}
           [] Encoder[n].kind = "ROBits" -> {0}
           [] Encoder[n].kind = "UnaryStruct" -> LongValues
           [] OTHER -> IF Encoder[n].num_bits <= 3
                       THEN 0..ShiftLeft(1, Encoder[n].num_bits)
                       ELSE {0, 90, 255, 256}

Ops(names) ==
    {[kind |-> "get", name |-> n, value |-> 0] : n \in names \ FloatNames}
    \cup UNION {{[kind |-> "set", name |-> n, value |-> v] : v \in SetValues(n)}
                : n \in names \ FloatNames}

\* The exercised fields declared at register r.
FieldsAt(r) == {n \in FieldNames \ FloatNames : Encoder[n].reg = r}

Registers == {Encoder[n].reg : n \in FieldNames \ FloatNames}

\* What the callers of one run work on: the fields declared at one register,
\* or the names the class does not have.
Scopes == {FieldsAt(r) : r \in Registers} \cup {UnknownNames}

(***************************************************************************)
(* The device: its register file, as the bus shows it.  A read of n bytes  *)
(* at address a returns registers a .. a+n-1, a write stores them.         *)
(***************************************************************************)
Addr ==
    UNION {{Encoder[n].reg + i : i \in 0..(Encoder[n].width - 1)} : n \in FieldNames}
    \cup {_REG_GCONF2}

InitMem(s) == [a \in Addr |-> (s + 29 * a) % 256]

Zeros(n) == [i \in 1..n |-> 0]

VARIABLES
    seed,      \* the seed of the device's initial registers
    parallel,  \* whether the host runs the two callers in parallel
    scope,     \* the attribute names the callers of this run use
    mem,       \* the device's registers
    locked,    \* the bus lock (busio.I2C.try_lock / unlock)
    attrs,     \* the instance's own attributes (its __dict__), by name
    buffer,    \* each RWBit/RWBits/ROBits descriptor's buffer[1:]
    buf,       \* each caller's local buf[1:] in UnaryStruct.__get__/__set__
    pc,        \* where each caller is in its call
    op,        \* the call each caller makes
    err,       \* the exception its call raised, "" for none
    res,       \* the value its get returned
    log        \* the bus transfers of its call

vars == <<seed, parallel, scope, mem, locked, attrs, buffer, buf, pc, op, err,
          res, log>>

BufferNames == {n \in FieldNames : Encoder[n].kind # "UnaryStruct"}

NoOp == [kind |-> "none", name |-> "", value |-> 0]

InitCommon ==
    /\ seed \in Seeds
    /\ mem = InitMem(seed)
    /\ locked = FALSE
    /\ attrs = [n \in UnknownNames |-> [present |-> FALSE, value |-> 0]]
    /\ buffer = [n \in BufferNames |-> Zeros(Encoder[n].width)]
    /\ buf = [c \in Callers |-> Zeros(4)]
    /\ pc = [c \in Callers |-> "idle"]
    /\ op = [c \in Callers |-> NoOp]
    /\ err = [c \in Callers |-> ""]
    /\ res = [c \in Callers |-> 0]
    /\ log = [c \in Callers |-> <<>>]

\* A single-threaded host: the callers run one after the other.
Init ==
    /\ InitCommon
    /\ parallel = FALSE
    /\ scope \in Scopes

\* A host with parallelism: the two callers run concurrently.
InitConc ==
    /\ InitCommon
    /\ parallel = TRUE
    /\ scope \in Scopes


(***************************************************************************)
(* adafruit_bus_device.i2c_device.I2CDevice, bound on line 107.            *)
(***************************************************************************)
\* busio.I2C.try_lock(), spun on by I2CDevice.__enter__: whether a caller
\* gets the lock when it is in state l.
\* A lock that every caller gets, held or not.
try_lock_always(l) == TRUE

try_lock(l) == ~l

\* I2CDevice.__exit__: the lock after the with block is left, with or
\* without an exception e (it unlocks and returns False).
\* An unlock placed after the block instead of in __exit__: an exception
\* skips it.
__exit__skipped(l, e) == IF e # "" THEN l ELSE FALSE

__exit__(l, e) == FALSE

\* I2CDevice.write_then_readinto(buffer, buffer, out_end=1, in_start=1):
\* the n bytes the device returns from register a on.
write_then_readinto(m, a, n) == [i \in 1..n |-> m[a + i - 1]]

\* I2CDevice.write(buffer): the registers after the first k of the data
\* bytes d reached the device at register a.
write(m, a, d, k) ==
    [x \in DOMAIN m |-> IF x >= a /\ x < a + k THEN d[x - a + 1] ELSE m[x]]

(***************************************************************************)
(* adafruit_register.i2c_bit.RWBit.                                        *)
(***************************************************************************)
\* __get__: bool(self.buffer[self.byte] & self.bit_mask)
RWBit__get__(d, b) == IF BitAnd(b[d.byte], d.bit_mask) # 0 THEN 1 ELSE 0

\* A set that writes the bit alone, without merging it into the byte read.
RWBit__set__unmerged(d, b, value) ==
    [b EXCEPT ![d.byte] = IF value # 0 THEN d.bit_mask ELSE 0]

\* __set__: the buffer after `|= bit_mask` or `&= ~bit_mask`.
RWBit__set__(d, b, value) ==
    IF value # 0
    THEN [b EXCEPT ![d.byte] = BitOr(b[d.byte], d.bit_mask)]
    ELSE [b EXCEPT ![d.byte] = BitAndNot(b[d.byte], d.bit_mask)]

(***************************************************************************)
(* adafruit_register.i2c_bits.RWBits and ROBits.                           *)
(***************************************************************************)
\* reg = (reg << 8) | buffer[i] for i from len(buffer) - 1 down to 1.
RECURSIVE Fold(_, _)
Fold(b, i) == IF i > Len(b) THEN 0 ELSE BitOr(ShiftLeft(Fold(b, i + 1), 8), b[i])

Compose(b) == Fold(b, 1)

\* for i in reversed(order): buffer[i] = reg & 0xFF; reg >>= 8
Decompose(reg, n) == [i \in 1..n |-> BitAnd(ShiftRight(reg, 8 * (i - 1)), 255)]

\* __get__: (reg & self.bit_mask) >> self.lowest_bit; sign_bit is 0.
RWBits__get__(d, b) ==
    IF d.width > 3
    THEN b
    ELSE ShiftRight(BitAnd(Compose(b), d.bit_mask), d.lowest_bit)

\* A set without `reg &= ~bit_mask`: the bits of the old value stay.
RWBits__set__unmasked(d, b, value) ==
    Decompose(BitOr(Compose(b), ShiftLeft(value, d.lowest_bit)), Len(b))

\* __set__: value <<= lowest_bit; reg &= ~bit_mask; reg |= value; the buffer
\* refilled from reg.
RWBits__set__(d, b, value) ==
    Decompose(BitOr(BitAndNot(Compose(b), d.bit_mask),
                    ShiftLeft(value, d.lowest_bit)),
              Len(b))

\* ROBits without its __set__: it inherits the one of RWBits.
SetRaisesNever(d) == ""

\* ROBits.__set__ raises AttributeError(); RWBit and RWBits have no check.
SetRaises(d) == IF d.kind = "ROBits" THEN "AttributeError" ELSE ""

(***************************************************************************)
(* adafruit_register.i2c_struct.UnaryStruct with format ">l".              *)
(***************************************************************************)
\* The format "<l": least significant byte first.
pack_into_little(value) ==
    <<value % 256, (value \div 256) % 256, (value \div 65536) % 256,
      (value \div 16777216) % 256>>

\* struct.pack_into(">l", buf, 1, value): 4 bytes, most significant first,
\* two's complement.
pack_into(value) ==
    <<(value \div 16777216) % 256, (value \div 65536) % 256,
      (value \div 256) % 256, value % 256>>

\* struct.unpack_from(">l", buf, 1)[0]
unpack_from(b) ==
    (IF b[1] >= 128 THEN b[1] - 256 ELSE b[1]) * 16777216
    + b[2] * 65536 + b[3] * 256 + b[4]


(***************************************************************************)
(* The steps of one attribute access by caller c.                          *)
(***************************************************************************)
Desc(c) == Encoder[op[c].name]

IsField(c) == op[c].name \in FieldNames

Transfer(t, a, d, ok) == [t |-> t, reg |-> a, data |-> d, ok |-> ok]

\* The exception a failed bus transfer raises.
BusError == "OSError"

\* A set that catches the failed read and goes on to its write.
AfterReadErrorGoesOn(o) == IF o.kind = "set" THEN "write" ELSE "exit"

\* Where a call goes when write_then_readinto raises inside the with block:
\* the exception leaves the block.
AfterReadError(o) == "exit"

\* The caller evaluates `obj.name` or `obj.name = value`.  A name of the
\* class reaches the descriptor; any other name reaches the instance's own
\* attributes, which a plain class (no __slots__, no __setattr__) creates on
\* assignment.  ROBits.__set__ raises at once; UnaryStruct.__set__ packs the
\* value before it takes the bus.
Call(c) ==
    /\ pc[c] = "idle"
    /\ parallel \/ \A d \in Callers : d < c => pc[d] = "done"
    /\ \E o \in Ops(scope) :
        /\ op' = [op EXCEPT ![c] = o]
        /\ IF o.name \notin FieldNames
           THEN /\ pc' = [pc EXCEPT ![c] = "done"]
                /\ IF o.kind = "set"
                   THEN /\ attrs' = [attrs EXCEPT ![o.name] =
                                        [present |-> TRUE, value |-> o.value]]
                        /\ UNCHANGED <<err, res>>
                   ELSE /\ IF attrs[o.name].present
                           THEN /\ res' = [res EXCEPT ![c] = attrs[o.name].value]
                                /\ UNCHANGED err
                           ELSE /\ err' = [err EXCEPT ![c] = "AttributeError"]
                                /\ UNCHANGED res
                        /\ UNCHANGED attrs
                /\ UNCHANGED buf
           ELSE /\ UNCHANGED <<attrs, res>>
                /\ IF o.kind = "set" /\ SetRaises(Encoder[o.name]) # ""
                   THEN /\ pc' = [pc EXCEPT ![c] = "done"]
                        /\ err' = [err EXCEPT ![c] = SetRaises(Encoder[o.name])]
                        /\ UNCHANGED buf
                   ELSE /\ pc' = [pc EXCEPT ![c] = "enter"]
                        /\ UNCHANGED err
                        /\ IF o.kind = "set" /\ Encoder[o.name].kind = "UnaryStruct"
                           THEN buf' = [buf EXCEPT ![c] = pack_into(o.value)]
                           ELSE IF Encoder[o.name].kind = "UnaryStruct"
                                THEN buf' = [buf EXCEPT ![c] = Zeros(4)]
                                ELSE UNCHANGED buf
    /\ UNCHANGED <<seed, parallel, scope, mem, locked, buffer, log>>

\* I2CDevice.__enter__: `while not self.i2c.try_lock(): time.sleep(0)`.
Enter(c) ==
    /\ pc[c] = "enter"
    /\ try_lock(locked)
    /\ locked' = TRUE
    /\ pc' = [pc EXCEPT ![c] =
                IF op[c].kind = "set" /\ Desc(c).kind = "UnaryStruct"
                THEN "write" ELSE "read"]
    /\ UNCHANGED <<seed, parallel, scope, mem, attrs, buffer, buf, op, err, res, log>>

\* i2c.write_then_readinto(...) succeeds: the register bytes land in the
\* descriptor's buffer (the caller's own buf for a UnaryStruct).
Read(c) ==
    /\ pc[c] = "read"
    /\ LET d == Desc(c)
           data == write_then_readinto(mem, d.reg, d.width)
       IN /\ IF d.kind = "UnaryStruct"
             THEN /\ buf' = [buf EXCEPT ![c] = data]
                  /\ UNCHANGED buffer
             ELSE /\ buffer' = [buffer EXCEPT ![op[c].name] = data]
                  /\ UNCHANGED buf
          /\ log' = [log EXCEPT ![c] = Append(@, Transfer("read", d.reg, data, TRUE))]
    /\ pc' = [pc EXCEPT ![c] = IF op[c].kind = "get" THEN "exit" ELSE "write"]
    /\ UNCHANGED <<seed, parallel, scope, mem, locked, attrs, op, err, res>>

\* i2c.write_then_readinto(...) raises: nothing was read.
ReadFail(c) ==
    /\ pc[c] = "read"
    /\ err' = [err EXCEPT ![c] = BusError]
    /\ log' = [log EXCEPT ![c] = Append(@, Transfer("read", Desc(c).reg, <<>>, FALSE))]
    /\ pc' = [pc EXCEPT ![c] = AfterReadError(op[c])]
    /\ UNCHANGED <<seed, parallel, scope, mem, locked, attrs, buffer, buf, op, res>>

\* The bytes a set sends: the descriptor's buffer, modified, or the packed
\* value.
Outgoing(c) ==
    CASE Desc(c).kind = "RWBit" -> RWBit__set__(Desc(c), buffer[op[c].name], op[c].value)
      [] Desc(c).kind = "UnaryStruct" -> buf[c]
      [] OTHER -> RWBits__set__(Desc(c), buffer[op[c].name], op[c].value)

\* The buffer is modified in place, then i2c.write(buffer) succeeds.
Write(c) ==
    /\ pc[c] = "write"
    /\ LET d == Desc(c)
           data == Outgoing(c)
       IN /\ IF d.kind = "UnaryStruct"
             THEN UNCHANGED buffer
             ELSE buffer' = [buffer EXCEPT ![op[c].name] = data]
          /\ mem' = write(mem, d.reg, data, Len(data))
          /\ log' = [log EXCEPT ![c] = Append(@, Transfer("write", d.reg, data, TRUE))]
    /\ pc' = [pc EXCEPT ![c] = "exit"]
    /\ UNCHANGED <<seed, parallel, scope, locked, attrs, buf, op, err, res>>

\* i2c.write(buffer) raises after k of the data bytes reached the device.
WriteFail(c) ==
    /\ pc[c] = "write"
    /\ LET d == Desc(c)
           data == Outgoing(c)
       IN /\ IF d.kind = "UnaryStruct"
             THEN UNCHANGED buffer
             ELSE buffer' = [buffer EXCEPT ![op[c].name] = data]
          /\ \E k \in 0..(Len(data) - 1) :
                /\ mem' = write(mem, d.reg, data, k)
                /\ log' = [log EXCEPT ![c] =
                             Append(@, Transfer("write", d.reg, SubSeq(data, 1, k), FALSE))]
    /\ err' = [err EXCEPT ![c] = BusError]
    /\ pc' = [pc EXCEPT ![c] = "exit"]
    /\ UNCHANGED <<seed, parallel, scope, locked, attrs, buf, op, res>>

\* The with block is left: I2CDevice.__exit__ unlocks the bus.  A set, or a
\* call that raised, is over; a get still has its return expression to
\* evaluate.
Exit(c) ==
    /\ pc[c] = "exit"
    /\ locked' = __exit__(locked, err[c])
    /\ pc' = [pc EXCEPT ![c] = IF op[c].kind = "get" /\ err[c] = "" THEN "return" ELSE "done"]
    /\ UNCHANGED <<seed, parallel, scope, mem, attrs, buffer, buf, op, err, res, log>>

\* The return expression of __get__, evaluated after the with block on the
\* descriptor's buffer.
Return(c) ==
    /\ pc[c] = "return"
    /\ res' = [res EXCEPT ![c] =
                 CASE Desc(c).kind = "RWBit" -> RWBit__get__(Desc(c), buffer[op[c].name])
                   [] Desc(c).kind = "UnaryStruct" -> unpack_from(buf[c])
                   [] OTHER -> RWBits__get__(Desc(c), buffer[op[c].name])]
    /\ pc' = [pc EXCEPT ![c] = "done"]
    /\ UNCHANGED <<seed, parallel, scope, mem, locked, attrs, buffer, buf, op, err, log>>

Next ==
    \E c \in Callers :
        \/ Call(c)
        \/ Enter(c)
        \/ Read(c)
        \/ ReadFail(c)
        \/ Write(c)
        \/ WriteFail(c)
        \/ Exit(c)
        \/ Return(c)

Spec == Init /\ [][Next]_vars

SpecConc == InitConc /\ [][Next]_vars


(***************************************************************************)
(* Vocabulary of the properties.                                           *)
(***************************************************************************)
Bit(x, k) == (x \div 2^k) % 2

Field(x, o, w) == (x \div 2^o) % 2^w

Done(c) == pc[c] = "done"

Ok(c) == Done(c) /\ err[c] = ""

InBus(c) == pc[c] \in {"read", "write", "exit"}

IsSet(c, kinds) ==
    /\ op[c].kind = "set"
    /\ IsField(c)
    /\ Desc(c).kind \in kinds

IsGet(c, kinds) ==
    /\ op[c].kind = "get"
    /\ IsField(c)
    /\ Desc(c).kind \in kinds

\* No call started after caller c's: the registers are as c left them.
Latest(c) == \A d \in Callers \ {c} : pc[d] = "idle" \/ (d < c /\ Done(d))

\* A completed read-modify-write of one byte at the descriptor's register.
ReadModifyWrite(c) ==
    /\ Len(log[c]) = 2
    /\ log[c][1] = Transfer("read", Desc(c).reg, log[c][1].data, TRUE)
    /\ log[c][2] = Transfer("write", Desc(c).reg, log[c][2].data, TRUE)
    /\ Len(log[c][1].data) = 1
    /\ Len(log[c][2].data) = 1

OldByte(c) == log[c][1].data[1]

NewByte(c) == log[c][2].data[1]

\* Caller 1 set a field and caller 2 then read the same field.
SetThenGet(kinds) ==
    /\ Ok(1)
    /\ Ok(2)
    /\ IsSet(1, kinds)
    /\ op[2].kind = "get"
    /\ op[2].name = op[1].name

(***************************************************************************)
(* C1.  Single-bit read-write fields: a set of true (false) is a           *)
(* read-modify-write of the field's register byte that leaves the field's  *)
(* bit 1 (0) and the other 7 bits as they were read, the register holds    *)
(* that byte afterwards, and a following get of the field returns the      *)
(* value set.                                                              *)
(***************************************************************************)
C1_BitRoundTrip ==
    /\ \A c \in Callers :
          Ok(c) /\ IsSet(c, {"RWBit"}) =>
             /\ ReadModifyWrite(c)
             /\ Bit(NewByte(c), Desc(c).lowest_bit) = op[c].value
             /\ \A j \in 0..7 :
                   j # Desc(c).lowest_bit => Bit(NewByte(c), j) = Bit(OldByte(c), j)
             /\ Latest(c) => mem[Desc(c).reg] = NewByte(c)
             /\ c = 1 => OldByte(c) = InitMem(seed)[Desc(c).reg]
    /\ SetThenGet({"RWBit"}) => res[2] = op[1].value

\* gconf_wrape is cleared in a byte whose other bits are not all 0, and read
\* back as false.
C1_Witness ==
    /\ SetThenGet({"RWBit"})
    /\ op[1].name = "gconf_wrape"
    /\ op[1].value = 0
    /\ Bit(OldByte(1), 1) = 1
    /\ OldByte(1) # 2
    /\ mem[_REG_GCONF] = OldByte(1) - 2
    /\ res[2] = 0

(***************************************************************************)
(* C2.  A set of a multi-bit read-write field of width w with a value      *)
(* >= 2^w fails, and issues no bus write.                                  *)
(***************************************************************************)
C2_OutOfRangeRejected ==
    \A c \in Callers :
       (/\ Done(c)
        /\ IsSet(c, {"RWBits"})
        /\ op[c].value >= 2^(Desc(c).num_bits))
       => /\ err[c] # ""
          /\ \A i \in 1..Len(log[c]) : log[c][i].t # "write"

(***************************************************************************)
(* C3.  Multi-bit read-write fields at offset o with width w: a set of v   *)
(* in 0 .. 2^w - 1 is a read-modify-write that leaves bits o .. o+w-1 of   *)
(* the register byte holding v and the bits outside them as they were      *)
(* read, and a following get of the field returns v.                       *)
(***************************************************************************)
C3_BitsRoundTrip ==
    /\ \A c \in Callers :
          (Ok(c) /\ IsSet(c, {"RWBits"}) /\ op[c].value < 2^(Desc(c).num_bits)) =>
             /\ ReadModifyWrite(c)
             /\ Field(NewByte(c), Desc(c).lowest_bit, Desc(c).num_bits) = op[c].value
             /\ \A j \in 0..7 :
                   (j < Desc(c).lowest_bit \/ j >= Desc(c).lowest_bit + Desc(c).num_bits)
                   => Bit(NewByte(c), j) = Bit(OldByte(c), j)
             /\ Latest(c) => mem[Desc(c).reg] = NewByte(c)
             /\ c = 1 => OldByte(c) = InitMem(seed)[Desc(c).reg]
    /\ (SetThenGet({"RWBits"}) /\ op[1].value < 2^(Desc(1).num_bits))
          => res[2] = op[1].value

\* gp1conf_mode is set to 2 in a byte whose bits 0-1 were not 10b and whose
\* bits 2-7 are not all 0, and read back as 2.
C3_Witness ==
    /\ SetThenGet({"RWBits"})
    /\ op[1].name = "gp1conf_mode"
    /\ op[1].value = 2
    /\ OldByte(1) % 4 # 2
    /\ OldByte(1) \div 4 # 0
    /\ mem[_REG_GP1CONF] % 4 = 2
    /\ mem[_REG_GP1CONF] \div 4 = OldByte(1) \div 4
    /\ res[2] = 2


\* The byte one set leaves, run alone on byte x.
SetAlone(o, x) ==
    IF Encoder[o.name].kind = "RWBit"
    THEN RWBit__set__(Encoder[o.name], <<x>>, o.value)[1]
    ELSE RWBits__set__(Encoder[o.name], <<x>>, o.value)[1]

BothSet ==
    /\ Ok(1)
    /\ Ok(2)
    /\ IsSet(1, {"RWBit", "RWBits"})
    /\ IsSet(2, {"RWBit", "RWBits"})
    /\ op[1].name # op[2].name
    /\ Desc(1).reg = Desc(2).reg

(***************************************************************************)
(* C4.  Two callers concurrently set two different fields of one register  *)
(* byte: their read-modify-writes never overlap, the byte ends as one of   *)
(* the two serial orders of the writes leaves it, and when the fields      *)
(* share no bit each ends holding the value its caller set.                *)
(***************************************************************************)
C4_SerialOrder ==
    /\ ~(InBus(1) /\ InBus(2))
    /\ BothSet =>
         LET r == Desc(1).reg
             x == InitMem(seed)[r]
         IN /\ mem[r] \in {SetAlone(op[2], SetAlone(op[1], x)),
                           SetAlone(op[1], SetAlone(op[2], x))}
            /\ (/\ BitAnd(Desc(1).bit_mask, Desc(2).bit_mask) = 0
                /\ op[1].value < 2^(Desc(1).num_bits)
                /\ op[2].value < 2^(Desc(2).num_bits))
               => /\ Field(mem[r], Desc(1).lowest_bit, Desc(1).num_bits) = op[1].value
                  /\ Field(mem[r], Desc(2).lowest_bit, Desc(2).num_bits) = op[2].value

\* gconf_dtype and gconf_wrape are both set in a GCONF byte that had both
\* clear, and both end set.
C4_Witness ==
    /\ parallel
    /\ BothSet
    /\ op[1].name = "gconf_dtype"
    /\ op[2].name = "gconf_wrape"
    /\ op[1].value = 1
    /\ op[2].value = 1
    /\ InitMem(seed)[_REG_GCONF] % 4 = 0
    /\ mem[_REG_GCONF] % 4 = 3

(***************************************************************************)
(* C5.  A caller has the bus lock for all of its bus transfers, and the    *)
(* lock is free whenever no caller is inside its with block, whether the   *)
(* calls returned or raised on the read or on the write: a caller waiting  *)
(* to enter can then take it.                                              *)
(***************************************************************************)
C5_LockReleased ==
    /\ \A c \in Callers : InBus(c) => locked
    /\ (\A c \in Callers : ~InBus(c)) => ~locked
    /\ \A c \in Callers :
          (pc[c] = "enter" /\ \A d \in Callers : ~InBus(d)) => ENABLED Enter(c)

\* Caller 1's set failed on its write, and caller 2 has since read.
C5_Witness ==
    /\ Done(1)
    /\ err[1] = BusError
    /\ Len(log[1]) = 2
    /\ log[1][2].t = "write"
    /\ ~log[1][2].ok
    /\ Ok(2)
    /\ Len(log[2]) > 0
    /\ ~locked

(***************************************************************************)
(* C6.  A set of a read-write bit field whose read fails raises the bus    *)
(* error after that one transfer, with no write and no second read, and    *)
(* the device's registers are as before the call; no write of such a field *)
(* is ever issued without a successful read of the same register just      *)
(* before it.                                                              *)
(***************************************************************************)
C6_NoWriteAfterFailedRead ==
    \A c \in Callers :
       (IsField(c) /\ Desc(c).kind \in {"RWBit", "RWBits"}) =>
          /\ \A i \in 1..Len(log[c]) :
                log[c][i].t = "write" =>
                   /\ i = 2
                   /\ log[c][1].t = "read"
                   /\ log[c][1].ok
                   /\ log[c][1].reg = log[c][i].reg
          /\ (Len(log[c]) > 0 /\ ~log[c][1].ok) =>
                /\ Len(log[c]) = 1
                /\ pc[c] \in {"exit", "done"}
                /\ err[c] = BusError
                /\ (c = 1 /\ Latest(c)) => mem = InitMem(seed)

\* The read of a set of gp1conf_int failed and the call is over.
C6_Witness ==
    /\ Done(1)
    /\ op[1].kind = "set"
    /\ op[1].name = "gp1conf_int"
    /\ Len(log[1]) = 1
    /\ ~log[1][1].ok
    /\ err[1] = BusError
    /\ mem = InitMem(seed)

(***************************************************************************)
(* C7.  4-byte signed struct fields: a set of v in -2^31 .. 2^31 - 1 is    *)
(* one write of 4 data bytes at the field's register, most significant     *)
(* byte first in two's complement, with no read, and a following get of    *)
(* the field returns v.                                                    *)
(***************************************************************************)
C7_LongRoundTrip ==
    /\ \A c \in Callers :
          (Ok(c) /\ IsSet(c, {"UnaryStruct"})) =>
             /\ Len(log[c]) = 1
             /\ log[c][1].t = "write"
             /\ log[c][1].reg = Desc(c).reg
             /\ Len(log[c][1].data) = 4
             /\ LET b == log[c][1].data
                IN /\ \A i \in 1..4 : b[i] \in Byte
                   /\ (b[1] >= 128) = (op[c].value < 0)
                   /\ (b[1] - (IF b[1] >= 128 THEN 256 ELSE 0)) * 16777216
                      + b[2] * 65536 + b[3] * 256 + b[4] = op[c].value
                   /\ Latest(c) => \A i \in 1..4 : mem[Desc(c).reg + i - 1] = b[i]
    /\ SetThenGet({"UnaryStruct"}) =>
          /\ res[2] = op[1].value
          /\ log[2] = <<Transfer("read", Desc(1).reg, log[1][1].data, TRUE)>>

\* cmax_long is set to 0x01020304 and to no other register, and read back.
C7_Witness ==
    /\ SetThenGet({"UnaryStruct"})
    /\ op[1].name = "cmax_long"
    /\ op[1].value = 16909060
    /\ log[1][1].data = <<1, 2, 3, 4>>
    /\ mem[_REG_CMAX] = 1
    /\ mem[_REG_CMAX + 3] = 4
    /\ res[2] = 16909060


(***************************************************************************)
(* C8.  A get or a set of a name the class does not declare fails, with    *)
(* no bus transfer, and leaves the instance and the device's registers     *)
(* unchanged.                                                              *)
(***************************************************************************)
C8_UnknownFieldFails ==
    \A c \in Callers :
       (Done(c) /\ op[c].kind # "none" /\ ~IsField(c)) =>
          /\ err[c] # ""
          /\ log[c] = <<>>
          /\ \A n \in UnknownNames : ~attrs[n].present
          /\ mem = InitMem(seed)

\* The logical register of each configuration field: the section of the
\* class it is declared in.
Section ==
    [GCONF |-> {"gconf_dtype", "gconf_wrape", "gconf_dire", "gconf_ipud",
                "gconf_rmod", "gconf_etype", "gconf_mbank", "gconf_rst"},
     GCONF2 |-> {"gconf2_cksrc", "gconf2_relmod"},
     GP1CONF |-> {"gp1conf", "gp1conf_mode", "gp1conf_pul", "gp1conf_int"},
     GP2CONF |-> {"gp2conf", "gp2conf_mode", "gp2conf_pul", "gp2conf_int"},
     GP3CONF |-> {"gp3conf", "gp3conf_mode", "gp3conf_pul", "gp3conf_int"},
     INTCONF |-> {"intconf_ipushr", "intconf_ipushp", "intconf_ipushd",
                  "intconf_irinc", "intconf_irdec", "intconf_irmax",
                  "intconf_irmin", "intconf_int2"}]

ConfNames == UNION {Section[x] : x \in DOMAIN Section}

LogicalRegister(n) == CHOOSE x \in DOMAIN Section : n \in Section[x]

\* The value a get of the configuration field n returns on registers m.
ValueIn(n, m) == Field(m[Encoder[n].reg], Encoder[n].lowest_bit, Encoder[n].num_bits)

(***************************************************************************)
(* C9.  A set of a field of one logical register (GCONF, GCONF2, GP1CONF,  *)
(* GP2CONF, GP3CONF, INTCONF) leaves the value of every field of every     *)
(* other logical register unchanged, and a set of a GCONF2 field writes    *)
(* register 0x30.                                                          *)
(***************************************************************************)
C9_LogicalRegistersDisjoint ==
    (/\ Ok(1)
     /\ pc[2] = "idle"
     /\ op[1].kind = "set"
     /\ op[1].name \in ConfNames)
    => /\ \A n \in ConfNames :
             LogicalRegister(n) # LogicalRegister(op[1].name)
             => ValueIn(n, mem) = ValueIn(n, InitMem(seed))
       /\ op[1].name \in Section.GCONF2 => log[1][Len(log[1])].reg = _REG_GCONF2

ReadOnlyNames == {n \in FieldNames : Encoder[n].kind = "ROBits"}

ReadOnlyRegisters ==
    UNION {{Encoder[n].reg + i : i \in 0..(Encoder[n].width - 1)} : n \in ReadOnlyNames}

(***************************************************************************)
(* C10.  The read-only fields: a set of one raises at once, whatever call  *)
(* came before, without taking the bus; no call ever changes registers     *)
(* 0x05, 0x06, 0x07, 0x70, 0x71 and 0x80 .. 0xFF; a get of a one-byte      *)
(* read-only field is one 1-byte read and returns that byte whole.         *)
(***************************************************************************)
C10_ReadOnlyNeverWritten ==
    /\ \A c \in Callers :
          IsSet(c, {"ROBits"}) =>
             /\ Done(c)
             /\ err[c] # ""
             /\ log[c] = <<>>
    /\ \A a \in ReadOnlyRegisters : mem[a] = InitMem(seed)[a]
    /\ \A c \in Callers :
          \A i \in 1..Len(log[c]) :
             log[c][i].t = "write" =>
                \A k \in 1..Len(log[c][i].data) :
                   log[c][i].reg + k - 1 \notin ReadOnlyRegisters
    /\ \A c \in Callers :
          (Ok(c) /\ IsGet(c, {"ROBits"}) /\ Desc(c).width = 1) =>
             /\ Len(log[c]) = 1
             /\ log[c][1] = Transfer("read", Desc(c).reg, <<mem[Desc(c).reg]>>, TRUE)
             /\ res[c] = mem[Desc(c).reg]

\* estatus was read, whole, and a set of it then raised.
C10_Witness ==
    /\ Ok(1)
    /\ op[1] = [kind |-> "get", name |-> "estatus", value |-> 0]
    /\ res[1] = InitMem(seed)[_REG_ESTATUS]
    /\ res[1] >= 128
    /\ Done(2)
    /\ op[2] = [kind |-> "set", name |-> "estatus", value |-> 0]
    /\ err[2] = "AttributeError"
    /\ log[2] = <<>>

=============================================================================
